---------------------------- MODULE Spec2Model ----------------------------
(***************************************************************************)
(* Model of the SensorBug advertisement logger (main.go): the decoder of   *)
(* the manufacturer data, the per-device update store and the serve loop   *)
(* that selects among the discovery channel, the ticker and the signal     *)
(* channel.                                                                *)
(*                                                                         *)
(* Bytes are naturals 0..255, a byte slice is a sequence (Go index k is    *)
(* TLA+ index k+1).  A summary string is the sequence of its fields: a     *)
(* field is the tuple of the values its format verb prints.                *)
(***************************************************************************)
EXTENDS Integers, Sequences, FiniteSets, TLC

(* bounds of the model *)
MaxRest == 4
MaxRecords == 3
MaxLive == 3
MaxEvents == 3
QueueExtra == 2

(* capacity of the discovery channel: make(chan discovery, 16) *)
QueueCap == 16

VARIABLES
  updates,    \* s.updates: device id -> [message, changed]
  disco,      \* s.disco: the buffered channel, a FIFO of discovery events
  ticker,     \* ticker.C: number of ticks pending in the channel (0 or 1)
  sigs,       \* sigs: number of signals pending in the channel (0 or 1)
  pc,         \* serve: "running", "exited" (return on signal), "crashed" (panic),
              \* "hung" (onDiscovery never returns)
  battery,    \* gauge btl_sensorbug_battery_percent, by unit label
  airTemp,    \* gauge btl_sensorbug_temperature_c, by unit label (sixteenths of a degree)
  out,        \* the lines log.Printf/Println wrote in the last loop iteration
  reported,   \* per device, the summary of the last line logged for it
  last,       \* the discovery event the loop handled last, with what onDiscovery did
  lastEv,     \* which select case the last loop iteration took
  nEnq,       \* number of events sent on s.disco so far
  nDeq,       \* number of events received from s.disco so far
  radio       \* the scanning environment: which advertisements it delivers, and how many

vars == <<updates, disco, ticker, sigs, pc, battery, airTemp, out, reported,
          last, lastEv, nEnq, nDeq, radio>>

-----------------------------------------------------------------------------
(* Bit fields of a byte *)

\* rest[0] & 0b00_111111
DataType(c) == c % 64

\* rest[0] & 0b01_000000 != 0
HasData(c) == (c \div 64) % 2 = 1

\* a faulty variant of HasAlert that tests bit 6
HasAlertBit6(c) == (c \div 64) % 2 = 1

\* rest[0] & 0b10_000000 != 0
HasAlert(c) == (c \div 128) % 2 = 1

\* rest[0] & 0b1_0_00_00_00 != 0
IsIR(d) == d \div 128 = 1

\* rest[0] & 0b0_0_11_00_00 >> 4
DataResolution(d) == (d \div 16) % 4

\* rest[0] & 0b0_0_00_11_00 >> 2
DataRange(d) == (d \div 4) % 4

\* rest[0] & 0b0_0_00_00_11
DataLen(d) == d % 4

\* binary.LittleEndian.Uint16 of the bytes lo, hi
Uint16(lo, hi) == lo + 256 * hi

\* a faulty variant of Int16 that keeps the value unsigned
Int16Unsigned(u) == u

\* int16(u): the two's complement reading of a 16-bit value
Int16(u) == IF u < 32768 THEN u ELSE u - 65536

\* "%.01f" of 0.0625 * v: the number of tenths printed.  v/16 is exact in
\* float64, the decimal is rounded to one digit, a tie going to the even digit.
Tenths(v) ==
  LET a == IF v < 0 THEN -v ELSE v
      q == (a * 10) \div 16
      r == (a * 10) % 16
      t == IF r > 8 THEN q + 1
           ELSE IF r < 8 THEN q
           ELSE IF q % 2 = 0 THEN q ELSE q + 1
  IN IF v < 0 THEN -t ELSE t

-----------------------------------------------------------------------------
(* The header *)

Magic == <<133, 0, 2, 0, 60>>

\* len(a.ManufacturerData) < 7
HeaderShort(data) == Len(data) < 7

\* a faulty variant of MagicMatches that compares four bytes
MagicMatches4(data) == SubSeq(data, 1, 4) = SubSeq(Magic, 1, 4)

\* bytes.Equal(a.ManufacturerData[:5], []byte{0x85, 0x00, 0x02, 0x00, 0x3c})
MagicMatches(data) == SubSeq(data, 1, 5) = Magic

\* fmt.Fprintf(&str, "batt:%d%%", batt)
BattField(batt) == <<"batt", batt>>

\* fmt.Fprintf(&str, " light:%v/%d/%d/%d", isIR, dataResolution, dataRange, data)
LightField(d, value) == <<"light", IsIR(d), DataResolution(d), DataRange(d), value>>

\* fmt.Fprintf(&str, " temp:%.01f°C", temp)
TempField(v) == <<"temp", Tenths(v)>>

-----------------------------------------------------------------------------
(* The record loop.  A decoder state st holds                              *)
(*   i      the offset of rest in the manufacturer data (rest = data[i:])  *)
(*   str    the fields written to the string builder so far                *)
(*   temp   the values airTemp was set to, in order                        *)
(*   reads  the positions of the bytes whose value was read                *)
(*   starts the positions of the control bytes                             *)
(*   ctl    "next": the loop goes on; "stop": rest = nil; "panic": a       *)
(*          slice or index expression was out of range; "loop": the loop   *)
(*          is back at a control byte it has parsed, so it never ends      *)

\* len(rest)
Remaining(data, st) == Len(data) - st.i

\* rest[k]
RestAt(data, st, k) == data[st.i + k + 1]

\* the position of rest[k] in data
PosOf(st, k) == st.i + k + 1

Panic(st) == [st EXCEPT !.ctl = "panic"]

\* rest = rest[n:], which panics when n > len(rest)
Advance(data, st, n) ==
  IF n > Remaining(data, st) THEN Panic(st) ELSE [st EXCEPT !.i = st.i + n]

\* case 0x01: rest = rest[2:]
Accel(data, st) == Advance(data, st, 2)

\* rest = rest[1+int(dataLen):]
LightAdvance(d) == 1 + DataLen(d)

\* a faulty variant of Light that writes its field before the temperature fields
LightSchemaOrder(data, st) ==
  IF Remaining(data, st) < 1 THEN Panic(st)
  ELSE
    LET d == RestAt(data, st, 0)
        wide == DataLen(d) = 2
        need == IF wide THEN 3 ELSE 2
    IN IF Remaining(data, st) < need
         THEN Panic([st EXCEPT !.reads = @ \cup {PosOf(st, 0)}])
         ELSE
           LET value == IF wide
                          THEN Uint16(RestAt(data, st, 1), RestAt(data, st, 2))
                          ELSE RestAt(data, st, 1)
               rd == IF wide THEN {PosOf(st, 0), PosOf(st, 1), PosOf(st, 2)}
                             ELSE {PosOf(st, 0), PosOf(st, 1)}
               temps == SelectSeq(st.str, LAMBDA x : x[1] = "temp")
               others == SelectSeq(st.str, LAMBDA x : x[1] # "temp")
           IN Advance(data,
                      [st EXCEPT !.str = others \o <<LightField(d, value)>> \o temps,
                                 !.reads = @ \cup rd],
                      LightAdvance(d))

\* case 0x02
Light(data, st) ==
  IF Remaining(data, st) < 1 THEN Panic(st)
  ELSE
    LET d == RestAt(data, st, 0)
        wide == DataLen(d) = 2
        need == IF wide THEN 3 ELSE 2
    IN IF Remaining(data, st) < need
         THEN Panic([st EXCEPT !.reads = @ \cup {PosOf(st, 0)}])
         ELSE
           LET value == IF wide
                          THEN Uint16(RestAt(data, st, 1), RestAt(data, st, 2))
                          ELSE RestAt(data, st, 1)
               rd == IF wide THEN {PosOf(st, 0), PosOf(st, 1), PosOf(st, 2)}
                             ELSE {PosOf(st, 0), PosOf(st, 1)}
           IN Advance(data,
                      [st EXCEPT !.str = Append(@, LightField(d, value)),
                                 !.reads = @ \cup rd],
                      LightAdvance(d))

\* case 0x03
Temp(data, st) ==
  IF Remaining(data, st) < 2 THEN Panic(st)
  ELSE
    LET v == Int16(Uint16(RestAt(data, st, 0), RestAt(data, st, 1)))
    IN Advance(data,
               [st EXCEPT !.str = Append(@, TempField(v)),
                          !.temp = Append(@, v),
                          !.reads = @ \cup {PosOf(st, 0), PosOf(st, 1)}],
               2)

\* case 0x2f: rest = rest[1:]
Pairing(data, st) == Advance(data, st, 1)

\* a faulty variant of Encrypted that leaves rest alone
EncryptedIgnored(data, st) == st

\* case 0x3f: rest = nil
Encrypted(data, st) == [st EXCEPT !.ctl = "stop"]

\* a faulty variant of Dispatch whose unknown types leave the control byte unread
DispatchUnread(data, st, dataType) ==
  CASE dataType = 1 -> Advance(data, st, 2)
    [] dataType = 3 -> Advance(data, st, 2)
    [] dataType = 47 -> Advance(data, st, 1)
    [] dataType = 63 -> [st EXCEPT !.ctl = "stop"]
    [] OTHER -> [st EXCEPT !.i = st.i - 1]

\* the switch on dataType; it has no default case
Dispatch(data, st, dataType) ==
  CASE dataType = 1 -> Accel(data, st)
    [] dataType = 2 -> Light(data, st)
    [] dataType = 3 -> Temp(data, st)
    [] dataType = 47 -> Pairing(data, st)
    [] dataType = 63 -> Encrypted(data, st)
    [] OTHER -> st

\* one iteration of "for len(rest) > 0"
Record(data, st) ==
  LET c == RestAt(data, st, 0)
      s1 == [st EXCEPT !.i = st.i + 1,
                       !.reads = @ \cup {PosOf(st, 0)},
                       !.starts = @ \cup {PosOf(st, 0)}]
      s2 == IF HasAlert(c) THEN Advance(data, s1, 1) ELSE s1
  IN IF s2.ctl = "panic" THEN s2
     ELSE IF ~HasData(c) THEN s2
     ELSE Dispatch(data, s2, DataType(c))

RECURSIVE Records(_, _)
\* for len(rest) > 0 { ... }
Records(data, st) ==
  IF st.ctl = "next" /\ Remaining(data, st) > 0
    THEN IF PosOf(st, 0) \in st.starts
           THEN [st EXCEPT !.ctl = "loop"]
           ELSE Records(data, Record(data, st))
    ELSE st

\* what one call of onDiscovery computes from the manufacturer data, up to
\* res := str.String(): outcome "notours" (an early return), "ok" (the loop
\* ended), "panic" or "loop" (the loop never ends); batt and temp are the
\* values the gauges were set to
Decode(data) ==
  IF HeaderShort(data) \/ ~MagicMatches(data)
    THEN [outcome |-> "notours", batt |-> <<>>, temp |-> <<>>, res |-> <<>>,
          reads |-> {}, starts |-> {}]
    ELSE
      LET batt == data[6]
          st == Records(data, [i |-> 7, str |-> <<BattField(batt)>>, temp |-> <<>>,
                               reads |-> 1..6, starts |-> {}, ctl |-> "next"])
      IN [outcome |-> IF st.ctl \in {"panic", "loop"} THEN st.ctl ELSE "ok",
          batt |-> <<batt>>, temp |-> st.temp, res |-> st.str,
          reads |-> st.reads, starts |-> st.starts]

-----------------------------------------------------------------------------
(* The update store *)

\* make(map[string]*update)
EmptyMap == [d \in {} |-> 0]

\* &update{}
NewUpdate == [message |-> <<>>, changed |-> FALSE]

\* a faulty variant of Store that sets the flag whatever the message
StoreAlwaysChanged(cur, res) == [message |-> res, changed |-> TRUE]

\* a faulty variant of Store that overwrites the message and leaves the flag
StoreUnflagged(cur, res) == [cur EXCEPT !.message = res]

\* a faulty variant of Store that makes the flag the result of the comparison
StoreFlagIsDiff(cur, res) == [message |-> res, changed |-> cur.message # res]

\* if cur.message != res { cur.message = res; cur.changed = true }
Store(cur, res) ==
  IF cur.message # res THEN [message |-> res, changed |-> TRUE] ELSE cur

\* cur := s.updates[id]; if cur == nil { cur = &update{}; s.updates[id] = cur }
Lookup(upd, id) == IF id \in DOMAIN upd THEN upd[id] ELSE NewUpdate

\* the store after the tail of onDiscovery
Apply(upd, id, res) ==
  [d \in DOMAIN upd \cup {id} |->
     IF d = id THEN Store(Lookup(upd, id), res) ELSE upd[d]]

\* a faulty variant of NewLines that writes the line at every decode
NewLinesAlways(upd, id, res) == <<[kind |-> "new", id |-> id, msg |-> res]>>

\* log.Printf("%s: new: %s\n", p.ID(), res), only when the entry was created
NewLines(upd, id, res) ==
  IF id \in DOMAIN upd THEN <<>> ELSE <<[kind |-> "new", id |-> id, msg |-> res]>>

\* the entries the ticker case reports
Changed(upd) == {d \in DOMAIN upd : upd[d].changed}

\* the orders in which "for id, update := range s.updates" can visit a set of keys
Orders(S) ==
  {f \in [1..Cardinality(S) -> S] : \A i, j \in 1..Cardinality(S) : f[i] = f[j] => i = j}

\* log.Printf("%s: %s\n", id, update.message) for the changed entries, in visiting order
FlushLines(upd, order) ==
  [k \in 1..Len(order) |-> [kind |-> "line", id |-> order[k], msg |-> upd[order[k]].message]]

\* a faulty variant of Flushed that keeps the flags
FlushedKeep(upd) == upd

\* update.changed = false for the changed entries
Flushed(upd) == [d \in DOMAIN upd |-> [upd[d] EXCEPT !.changed = FALSE]]

\* a faulty variant of SetGauge that keeps the value a device already has
SetGaugeOnce(g, id, v) ==
  [d \in DOMAIN g \cup {id} |-> IF d \in DOMAIN g THEN g[d] ELSE v]

\* gauge.WithLabelValues(id).Set(v)
SetGauge(g, id, v) == [d \in DOMAIN g \cup {id} |-> IF d = id THEN v ELSE g[d]]

\* the last summary logged for each device, after the lines were written
Reported(rep, lines) ==
  [d \in DOMAIN rep \cup {lines[k].id : k \in 1..Len(lines)} |->
     IF \E k \in 1..Len(lines) : lines[k].id = d
       THEN lines[CHOOSE k \in 1..Len(lines) : lines[k].id = d
                     /\ \A j \in k+1..Len(lines) : lines[j].id # d].msg
       ELSE rep[d]]

-----------------------------------------------------------------------------
(* The discovery channel *)

\* a faulty variant of CanSend with room for one more event
CanSendOneMore(q) == Len(q) <= QueueCap

\* s.disco <- discovery{...} proceeds only while the buffer has room
CanSend(q) == Len(q) < QueueCap

\* disco := <-s.disco
Receive(q) == [event |-> Head(q), rest |-> Tail(q)]

-----------------------------------------------------------------------------
(* The environments *)

Devices == {"d1", "d2"}

\* a payload with a valid header: the magic, the battery byte, the reserved byte
Hdr(batt) == Magic \o <<batt, 0>>

\* the payloads of the full system: two battery levels, two temperatures that
\* print alike (401 and 402 sixteenths), a truncated temperature record, a
\* record of unknown type 0x10 with has-data, a short header and a foreign one
Payloads ==
  { Hdr(50), Hdr(49),
    Hdr(50) \o <<67, 145, 1>>, Hdr(50) \o <<67, 146, 1>>,
    Hdr(50) \o <<67, 144>>,
    Hdr(50) \o <<80>>,
    <<133, 0, 2, 0, 60, 50>>,
    <<133, 0, 2, 0, 61, 50, 0>> }

\* the bytes the record streams of the decoder runs are made of
Alphabet == {1, 63, 65, 66, 67, 80, 111, 127, 144, 195}

\* the byte sequences of at most n bytes
Streams(n) == UNION {[1..k -> Alphabet] : k \in 0..n}

NoEvent ==
  [seq |-> 0, id |-> "", data |-> <<>>,
   r |-> [outcome |-> "none", batt |-> <<>>, temp |-> <<>>, res |-> <<>>,
          reads |-> {}, starts |-> {}]]

\* the advertisements of the full system: any of the payloads from any device
SystemAdverts == {[id |-> d, data |-> p] : d \in Devices, p \in Payloads}

\* whole records: without data, accelerometer, light with a one-byte and a
\* two-byte value, temperature above and below zero, pairing, temperature with
\* an alert byte, unknown type, alert without data, encryption
WholeRecords ==
  { <<1>>, <<65, 1, 1>>, <<66, 1, 144>>, <<66, 66, 144, 1>>, <<67, 144, 1>>,
    <<67, 1, 144>>, <<111, 1>>, <<195, 63, 144, 1>>, <<80>>, <<144, 1>>, <<127>> }

RECURSIVE Flatten(_)
\* the bytes of a sequence of records
Flatten(rs) == IF rs = <<>> THEN <<>> ELSE Head(rs) \o Flatten(Tail(rs))

\* the streams of at most n whole records
RecordStreams(n) == {Flatten(rs) : rs \in UNION {[1..k -> WholeRecords] : k \in 0..n}}

\* the advertisements of the decoder runs: a valid header and any stream of
\* bytes or of whole records
DecoderAdverts ==
  {[id |-> "d1", data |-> Hdr(50) \o s] :
     s \in Streams(MaxRest) \cup RecordStreams(MaxRecords)}

\* the advertisement of the channel runs
ChannelAdverts == {[id |-> "d1", data |-> Hdr(50)]}

\* the advertisements of the runs under fair selection: one device, two
\* battery levels and a truncated temperature record
LiveAdverts ==
  {[id |-> "d1", data |-> p] : p \in {Hdr(50), Hdr(49), Hdr(50) \o <<67, 144>>}}

\* the advertisements the scanning environment of a run delivers
Adverts(kind) ==
  CASE kind = "system" -> SystemAdverts
    [] kind = "live" -> LiveAdverts
    [] kind = "decoder" -> DecoderAdverts
    [] kind = "channel" -> ChannelAdverts

-----------------------------------------------------------------------------
(* The actions *)

\* the PeripheralDiscovered callback: s.disco <- discovery{p, a, rssi}
Enqueue ==
  /\ pc # "crashed"
  /\ nEnq < radio.budget
  /\ CanSend(disco)
  /\ \E a \in Adverts(radio.kind) :
       disco' = Append(disco, [seq |-> nEnq + 1, id |-> a.id, data |-> a.data])
  /\ nEnq' = nEnq + 1
  /\ UNCHANGED <<updates, ticker, sigs, pc, battery, airTemp, out, reported,
                 last, lastEv, nDeq, radio>>

\* the ticker delivers a tick; a tick the loop has not taken yet is kept, not doubled
TimerFire ==
  /\ pc = "running"
  /\ ticker' = 1
  /\ UNCHANGED <<updates, disco, sigs, pc, battery, airTemp, out, reported,
                 last, lastEv, nEnq, nDeq, radio>>

\* SIGINT or SIGTERM arrives: signal.Notify sends it without blocking
Signal ==
  /\ pc # "crashed"
  /\ sigs' = 1
  /\ UNCHANGED <<updates, disco, ticker, pc, battery, airTemp, out, reported,
                 last, lastEv, nEnq, nDeq, radio>>

\* case disco := <-s.disco: s.onDiscovery(disco.periph, disco.advert, disco.rssi)
HandleDisco ==
  /\ pc = "running"
  /\ disco # <<>>
  /\ LET rcv == Receive(disco)
         e == rcv.event
         r == Decode(e.data)
     IN /\ disco' = rcv.rest
        /\ nDeq' = nDeq + 1
        /\ last' = [seq |-> e.seq, id |-> e.id, data |-> e.data, r |-> r]
        /\ battery' = IF r.batt # <<>> THEN SetGauge(battery, e.id, r.batt[1])
                                      ELSE battery
        /\ airTemp' = IF r.temp # <<>> THEN SetGauge(airTemp, e.id, r.temp[Len(r.temp)])
                                      ELSE airTemp
        /\ updates' = IF r.outcome = "ok" THEN Apply(updates, e.id, r.res) ELSE updates
        /\ out' = IF r.outcome = "ok" THEN NewLines(updates, e.id, r.res) ELSE <<>>
        /\ reported' = Reported(reported, out')
        /\ pc' = CASE r.outcome = "panic" -> "crashed"
                   [] r.outcome = "loop" -> "hung"
                   [] OTHER -> pc
  /\ lastEv' = "disco"
  /\ UNCHANGED <<ticker, sigs, nEnq, radio>>

\* case <-ticker.C
HandleTick ==
  /\ pc = "running"
  /\ ticker = 1
  /\ ticker' = 0
  /\ \E order \in Orders(Changed(updates)) : out' = FlushLines(updates, order)
  /\ updates' = Flushed(updates)
  /\ reported' = Reported(reported, out')
  /\ lastEv' = "tick"
  /\ UNCHANGED <<disco, sigs, pc, battery, airTemp, last, nEnq, nDeq, radio>>

\* case <-sigs: log.Println("Exit on interrupt"); return
HandleSig ==
  /\ pc = "running"
  /\ sigs = 1
  /\ sigs' = 0
  /\ out' = <<[kind |-> "exit", id |-> "", msg |-> <<>>]>>
  /\ pc' = "exited"
  /\ lastEv' = "sig"
  /\ UNCHANGED <<updates, disco, ticker, battery, airTemp, reported, last,
                 nEnq, nDeq, radio>>

Next ==
  \/ Enqueue
  \/ TimerFire
  \/ Signal
  \/ HandleDisco
  \/ HandleTick
  \/ HandleSig

-----------------------------------------------------------------------------
(* The initial states and the specifications *)

\* the state when serve enters its loop, in a given environment
Start(env) ==
  /\ updates = EmptyMap
  /\ disco = <<>>
  /\ ticker = 0
  /\ sigs = 0
  /\ pc = "running"
  /\ battery = EmptyMap
  /\ airTemp = EmptyMap
  /\ out = <<>>
  /\ reported = EmptyMap
  /\ last = NoEvent
  /\ lastEv = "none"
  /\ nEnq = 0
  /\ nDeq = 0
  /\ radio = env

\* the full system: a few advertisements, of any payload, from any device
Init == Start([kind |-> "system", budget |-> MaxEvents])

\* the decoder: one advertisement with a valid header and any record stream
InitDec == Start([kind |-> "decoder", budget |-> 1])

\* the channel: a burst of one advertisement, longer than the buffer
InitQueue == Start([kind |-> "channel", budget |-> QueueCap + QueueExtra])

Spec == Init /\ [][Next]_vars

DecSpec == InitDec /\ [][Next]_vars

QueueSpec == InitQueue /\ [][Next]_vars

\* select takes one of its ready cases at random, so a case that stays ready
\* is taken in the end; the ticker keeps firing while the loop runs
Fairness ==
  /\ WF_vars(HandleDisco)
  /\ WF_vars(HandleTick)
  /\ WF_vars(HandleSig)
  /\ WF_vars(TimerFire)

\* the runs under fair selection: a few advertisements of one device
InitLive == Start([kind |-> "live", budget |-> MaxLive])

\* the system under fair selection
LiveSpec == InitLive /\ [][Next]_vars /\ Fairness

\* the steps of a run in which no signal arrives
QuietNext ==
  \/ Enqueue
  \/ TimerFire
  \/ HandleDisco
  \/ HandleTick

\* the system under fair selection, with no signal
QuietSpec ==
  /\ InitLive
  /\ [][QuietNext]_vars
  /\ WF_vars(HandleDisco)
  /\ WF_vars(HandleTick)
  /\ WF_vars(TimerFire)

-----------------------------------------------------------------------------
(* Steps and inputs the properties speak of *)

\* the loop took the discovery case: last' is the event onDiscovery was called with
DiscoStep == nDeq' = nDeq + 1

\* the loop took the ticker case
TickStep == ticker = 1 /\ ticker' = 0

\* the number of lines of a log output that are about device d
LinesFor(lines, d) == Cardinality({k \in 1..Len(lines) : lines[k].id = d})

\* manufacturer data shorter than 7 bytes or not starting with 85 00 02 00 3c
Foreign(data) == Len(data) < 7 \/ \E k \in 1..5 : data[k] # Magic[k]

\* a control byte with has-data and a data-type that is none of 01 02 03 2f 3f
UnknownType(c) == HasData(c) /\ DataType(c) \notin {1, 2, 3, 47, 63}

\* the record whose control byte is at position p lacks bytes: the alert byte,
\* or part of the payload of a has-data record of type 01, 02, 03 or 2f
TruncatedAt(data, p) ==
  LET c == data[p]
      a == IF HasAlert(c) THEN 1 ELSE 0
      avail == Len(data) - p - a
      need == CASE DataType(c) = 1 -> 2
                [] DataType(c) = 2 ->
                     IF avail < 1 THEN 1
                     ELSE IF DataLen(data[p + a + 1]) = 2 THEN 3 ELSE 2
                [] DataType(c) = 3 -> 2
                [] DataType(c) = 47 -> 1
                [] OTHER -> 0
  IN avail < 0 \/ (HasData(c) /\ avail < need)

-----------------------------------------------------------------------------
(* Properties *)

\* C1: a successful decode for a device that has no entry creates the entry
\* with changed = false, and a tick that follows it with no other decode in
\* between writes no line for that device.
C1_NewEntryNotChanged ==
  [][ /\ \A d \in Devices :
           (d \notin DOMAIN updates /\ d \in DOMAIN updates') => ~updates'[d].changed
      /\ (TickStep /\ lastEv = "disco" /\ Len(out) = 1 /\ out[1].kind = "new")
           => LinesFor(out', out[1].id) = 0 ]_vars

\* C2: a tick writes exactly one line "<id>: <message>" for each entry with
\* changed = true, carrying the stored message (the summary of the latest
\* successful decode for the device), and no other line; after it every entry
\* has changed = false; a tick right after a tick writes nothing.
C2_FlushEmitsChanged ==
  [][ TickStep =>
        /\ \A d \in DOMAIN updates :
             LinesFor(out', d) = IF updates[d].changed THEN 1 ELSE 0
        /\ \A k \in 1..Len(out') :
             /\ out'[k].kind = "line"
             /\ out'[k].id \in DOMAIN updates
             /\ out'[k].msg = updates[out'[k].id].message
             /\ (last.id = out'[k].id /\ last.r.outcome = "ok")
                  => out'[k].msg = last.r.res
        /\ DOMAIN updates' = DOMAIN updates
        /\ \A d \in DOMAIN updates' :
             ~updates'[d].changed /\ updates'[d].message = updates[d].message
        /\ (lastEv = "tick" => out' = <<>>) ]_vars

\* a tick wrote a line for one device and none for the other
C2_Witness ==
  /\ lastEv = "tick"
  /\ Len(out) = 1
  /\ Cardinality(DOMAIN updates) = 2

\* C3: a successful decode whose summary equals the stored message of the
\* device's entry leaves the whole store as it was; so does a second decode of
\* the byte sequence the previous successful decode for the same device had.
C3_EqualSummaryNoMutation ==
  [][ /\ ( /\ DiscoStep
           /\ last'.r.outcome = "ok"
           /\ last'.id \in DOMAIN updates
           /\ last'.r.res = updates[last'.id].message )
         => updates' = updates
      /\ ( /\ DiscoStep
           /\ last.r.outcome = "ok"
           /\ last'.id = last.id
           /\ last'.data = last.data )
         => updates' = updates ]_vars

\* a decode for a device with an entry left changed = false: the summary was the stored one
C3_Witness ==
  /\ lastEv = "disco"
  /\ last.r.outcome = "ok"
  /\ out = <<>>
  /\ last.id \in DOMAIN updates
  /\ ~updates[last.id].changed
  /\ updates[last.id].message = last.r.res

\* C4 as stated: an entry has changed = true if and only if its stored
\* message differs from the summary last logged for the device.
C4_ChangedIffDiffers ==
  \A d \in DOMAIN updates :
    d \in DOMAIN reported /\ (updates[d].changed <=> updates[d].message # reported[d])

\* C4 as amended: an entry whose stored message differs from the summary last
\* logged for the device has changed = true (an entry with changed = false
\* stores the summary last logged).
C4_DiffersImpliesChanged ==
  \A d \in DOMAIN updates :
    d \in DOMAIN reported /\ (updates[d].message # reported[d] => updates[d].changed)

\* one entry is reported and unflagged while another holds an unreported summary
C4_Witness ==
  \E d, e \in DOMAIN updates :
    /\ ~updates[d].changed
    /\ updates[d].message = reported[d]
    /\ updates[e].changed
    /\ updates[e].message # reported[e]

\* C5 as stated: when the parser reaches a record whose control byte is 0x3f,
\* the decode succeeds, no later byte is read or taken as a record, and the
\* summary is the one gathered up to it (that of the payload cut after it).
C5_MarkerByteStops ==
  \A p \in last.r.starts :
    last.data[p] = 63 =>
      /\ last.r.outcome = "ok"
      /\ \A q \in last.r.reads \cup last.r.starts : q <= p
      /\ last.r.res = Decode(SubSeq(last.data, 1, p)).res

\* C5 as amended: the same for a record whose control byte is 0x7f, that is
\* data-type 0x3f with has-data set.
C5_EncryptedRecordStops ==
  \A p \in last.r.starts :
    last.data[p] = 127 =>
      /\ last.r.outcome = "ok"
      /\ \A q \in last.r.reads \cup last.r.starts : q <= p
      /\ last.r.res = Decode(SubSeq(last.data, 1, p)).res

\* a decode stopped at 0x7f with a field gathered before it and a byte after it
C5_Witness ==
  \E p \in last.r.starts :
    /\ last.data[p] = 127
    /\ p < Len(last.data)
    /\ Len(last.r.res) > 1

\* C6: a payload with a valid header and a truncated record ends in a decode
\* failure: the advertisement is dropped, nothing is stored or logged, no
\* slice or index expression goes out of range and the loop goes on.
C6_TruncatedRecordFails ==
  [][ ( /\ DiscoStep
        /\ ~Foreign(last'.data)
        /\ \E p \in last'.r.starts : TruncatedAt(last'.data, p) )
      => /\ last'.r.outcome \notin {"ok", "panic"}
         /\ updates' = updates
         /\ out' = <<>>
         /\ pc' = "running" ]_vars

\* C7: whatever the advertisement, the loop is still running after it has
\* handled a discovery event.
C7_LoopSurvivesDiscovery ==
  [][ DiscoStep => pc' = "running" ]_vars

\* C8: an advertisement shorter than 7 bytes or with another prefix changes
\* neither the store nor the gauges and writes no line.
C8_ForeignChangesNothing ==
  [][ (DiscoStep /\ Foreign(last'.data)) =>
        /\ updates' = updates
        /\ battery' = battery
        /\ airTemp' = airTemp
        /\ out' = <<>>
        /\ pc' = pc ]_vars

\* a foreign advertisement of full length went by a device with a pending change
C8_Witness ==
  /\ lastEv = "disco"
  /\ Foreign(last.data)
  /\ Len(last.data) >= 7
  /\ last.id \in DOMAIN updates
  /\ updates[last.id].changed

\* C9: a payload in which the parser reaches a has-data record of unknown
\* data-type is discarded: no entry is created or updated, no line is written.
C9_UnknownTypeFails ==
  [][ ( /\ DiscoStep
        /\ ~Foreign(last'.data)
        /\ \E p \in last'.r.starts : UnknownType(last'.data[p]) )
      => /\ last'.r.outcome # "ok"
         /\ updates' = updates
         /\ out' = <<>> ]_vars

\* C10: the channel never holds more than 16 events; it holds the events sent
\* and not yet received, in sending order, and the k-th event handed to
\* onDiscovery is the k-th event sent.
C10_ChannelBoundedFifo ==
  /\ Len(disco) <= QueueCap
  /\ nDeq + Len(disco) = nEnq
  /\ \A k \in 1..Len(disco) : disco[k].seq = nDeq + k
  /\ nDeq > 0 => last.seq = nDeq

\* the channel is full again after a sender that found it full went through
C10_Witness ==
  /\ Len(disco) = QueueCap
  /\ nEnq > QueueCap
  /\ last.seq = nDeq

-----------------------------------------------------------------------------
(* The record format as the properties read it *)

\* bit 7 of a control byte: has-alert
AlertBit(c) == c >= 128

\* bit 6 of a control byte: has-data
DataBit(c) == c % 128 >= 64

\* the low 6 bits of a control byte: the data-type
TypeBits(c) == c % 64

\* the number of alert bytes after a control byte
AlertLen(c) == IF AlertBit(c) THEN 1 ELSE 0

\* the k-th smallest element of a set of numbers
Nth(S, k) == CHOOSE x \in S : Cardinality({y \in S : y < x}) = k - 1

\* the largest element of a nonempty set of numbers
Largest(S) == CHOOSE x \in S : \A y \in S : y <= x

\* the has-data temperature records among the records at the positions starts
TempRecords(data, starts) ==
  {p \in starts : DataBit(data[p]) /\ TypeBits(data[p]) = 3}

\* the has-data light records among the records at the positions starts
LightRecords(data, starts) ==
  {p \in starts : DataBit(data[p]) /\ TypeBits(data[p]) = 2}

\* the sixteenths of a degree of the temperature record at p: the signed
\* 16-bit value of its two payload bytes, low byte first
TempValueAt(data, p) ==
  LET a == AlertLen(data[p])
      u == data[p + a + 1] + 256 * data[p + a + 2]
  IN IF u < 32768 THEN u ELSE u - 65536

\* the record at p ends at position e: no byte of p+1..e starts a record, and
\* the next record, if the data goes on, starts at e+1
EndsAt(data, starts, p, e) ==
  /\ e <= Len(data)
  /\ \A q \in (p + 1)..e : q \notin starts
  /\ e < Len(data) => e + 1 \in starts

\* the loop took one of its select cases
LoopStep == DiscoStep \/ TickStep \/ (pc = "running" /\ pc' = "exited")

\* the number of "new" lines of a log output that are about device d
NewLinesFor(lines, d) ==
  Cardinality({k \in 1..Len(lines) : lines[k].kind = "new" /\ lines[k].id = d})

-----------------------------------------------------------------------------
(* Properties, continued *)

\* C12: after a successful decode for a device its battery gauge is the
\* battery byte and, when the payload held a temperature record, its
\* temperature gauge is the value of the last one, whether or not the entry
\* was mutated.
C12_GaugesFollowDecode ==
  [][ (DiscoStep /\ last'.r.outcome = "ok") =>
        LET d == last'.id
            data == last'.data
            T == TempRecords(data, last'.r.starts)
        IN /\ d \in DOMAIN battery'
           /\ battery'[d] = data[6]
           /\ T # {} => /\ d \in DOMAIN airTemp'
                        /\ airTemp'[d] = TempValueAt(data, Largest(T)) ]_vars

\* a decode left the entry as it was, reported and unflagged, and set the
\* temperature gauge to 402 sixteenths
C12_Witness ==
  /\ lastEv = "disco"
  /\ last.r.outcome = "ok"
  /\ out = <<>>
  /\ ~updates[last.id].changed
  /\ last.r.temp = <<402>>
  /\ airTemp[last.id] = 402
  /\ battery[last.id] = 50

\* C13: the line "<id>: new: <summary>" is written in the step of the first
\* successful decode for the device, alone, and in no other step of the loop;
\* entries are never removed, so it is written once per device.
C13_NewLineOnce ==
  [][ /\ DOMAIN updates \subseteq DOMAIN updates'
      /\ \A d \in Devices :
           LET first == /\ DiscoStep
                        /\ last'.id = d
                        /\ last'.r.outcome = "ok"
                        /\ d \notin DOMAIN updates
           IN /\ first => /\ out' = <<[kind |-> "new", id |-> d, msg |-> last'.r.res]>>
                          /\ d \in DOMAIN updates'
              /\ (LoopStep /\ ~first) => NewLinesFor(out', d) = 0
              /\ (d \in DOMAIN updates' /\ d \notin DOMAIN updates) => first ]_vars

\* a later successful decode for a device that has its entry wrote no line
C13_Witness ==
  /\ lastEv = "disco"
  /\ last.r.outcome = "ok"
  /\ last.id \in DOMAIN reported
  /\ out = <<>>
  /\ nDeq >= 2

\* C14: the summary of a successful decode is the battery field followed by
\* one field per has-data light or temperature record, in the order of the
\* records; no other record contributes a field.
C14_FieldsInRecordOrder ==
  last.r.outcome = "ok" =>
    LET data == last.data
        F == LightRecords(data, last.r.starts) \cup TempRecords(data, last.r.starts)
        res == last.r.res
    IN /\ Len(res) = 1 + Cardinality(F)
       /\ res[1] = <<"batt", data[6]>>
       /\ \A k \in 1..Cardinality(F) :
            res[k + 1][1] = IF TypeBits(data[Nth(F, k)]) = 2 THEN "light" ELSE "temp"

\* a temperature, an accelerometer and a light record gave "temp" then "light"
C14_Witness ==
  /\ last.r.outcome = "ok"
  /\ Len(last.r.res) = 3
  /\ last.r.res[2][1] = "temp"
  /\ last.r.res[3][1] = "light"
  /\ \E p \in last.r.starts : last.data[p] = 65

\* C15: a has-data temperature record with payload lo, hi yields the signed
\* 16-bit value of lo + 256*hi in sixteenths of a degree and takes exactly two
\* payload bytes; the payload 90 01 after battery 50 yields 400 sixteenths,
\* printed 25.0.
C15_TemperatureValue ==
  /\ last.r.outcome = "ok" =>
       LET data == last.data
           T == TempRecords(data, last.r.starts)
       IN /\ Len(last.r.temp) = Cardinality(T)
          /\ \A k \in 1..Cardinality(T) :
               LET p == Nth(T, k)
               IN /\ last.r.temp[k] = TempValueAt(data, p)
                  /\ EndsAt(data, last.r.starts, p, p + AlertLen(data[p]) + 2)
  /\ last.data = Hdr(50) \o <<67, 144, 1>> =>
       /\ last.r.temp = <<400>>
       /\ last.r.res = <<<<"batt", 50>>, <<"temp", 250>>>>

\* a decode read 400 sixteenths and then a temperature below zero
C15_Witness ==
  /\ last.r.outcome = "ok"
  /\ Len(last.r.temp) = 2
  /\ last.r.temp[1] = 400
  /\ last.r.temp[2] < 0

\* C16: a has-data light record takes the descriptor byte and two value bytes
\* when the length code is 2, the descriptor byte and one value byte
\* otherwise; the next record starts right after them.
C16_LightRecordLength ==
  last.r.outcome = "ok" =>
    \A p \in LightRecords(last.data, last.r.starts) :
      LET a == AlertLen(last.data[p])
          d == last.data[p + a + 1]
          n == IF d % 4 = 2 THEN 3 ELSE 2
      IN EndsAt(last.data, last.r.starts, p, p + a + n)

\* C17: a record takes its control byte, one alert byte exactly when bit 7 is
\* set, which is neither read nor taken as a record, and then its payload; a
\* record with bit 6 clear takes no payload.
C17_AlertAndNoData ==
  \A p \in last.r.starts :
    LET data == last.data
        c == data[p]
        a == AlertLen(c)
    IN /\ (AlertBit(c) /\ p < Len(data)) =>
            (p + 1 \notin last.r.starts /\ p + 1 \notin last.r.reads)
       /\ (~DataBit(c) /\ p + a <= Len(data)) =>
            EndsAt(data, last.r.starts, p, p + a)
       /\ (DataBit(c) /\ TypeBits(c) = 2 /\ p + a + 1 <= Len(data)) =>
            p + a + 1 \in last.r.reads
       /\ (DataBit(c) /\ TypeBits(c) = 3 /\ p + a + 2 <= Len(data)) =>
            {p + a + 1, p + a + 2} \subseteq last.r.reads

\* a temperature record with an alert byte gave 400 sixteenths
C17_Witness ==
  /\ last.data = Hdr(50) \o <<195, 63, 144, 1>>
  /\ last.r.outcome = "ok"
  /\ last.r.temp = <<400>>

\* C18: the record loop ends on every payload: an iteration at any record
\* position the parser reaches leaves fewer bytes than it found, also for a
\* has-data record of unknown type.
C18_RecordLoopEnds ==
  /\ last.r.outcome # "loop"
  /\ pc # "hung"
  /\ \A p \in last.r.starts :
       Remaining(last.data,
                 Record(last.data, [i |-> p - 1, str |-> <<>>, temp |-> <<>>,
                                    reads |-> {}, starts |-> {}, ctl |-> "next"]))
         < Len(last.data) - (p - 1)

\* the loop went past a has-data record of unknown type to another record
C18_Witness ==
  /\ last.r.outcome = "ok"
  /\ \E p \in last.r.starts : last.data[p] = 80 /\ p + 1 \in last.r.starts

\* C20: an entry with changed = false stores the summary last logged for the
\* device, and no discovery step clears a flag that is set, also when the
\* decode restores the summary last logged.
C20_FlagClearedOnlyByTick ==
  [][ /\ \A d \in DOMAIN updates' :
           ~updates'[d].changed =>
             (d \in DOMAIN reported' /\ updates'[d].message = reported'[d])
      /\ DiscoStep =>
           \A d \in DOMAIN updates : updates[d].changed => updates'[d].changed ]_vars

\* a decode restored the summary last logged and the flag stayed set
C20_Witness ==
  /\ lastEv = "disco"
  /\ last.r.outcome = "ok"
  /\ out = <<>>
  /\ nDeq >= 3
  /\ updates[last.id].changed
  /\ updates[last.id].message = reported[last.id]

\* C11: once a signal is pending the loop ends by its return on the signal;
\* after that return no entry is mutated and no line is written.
C11_SignalLeadsToExit ==
  /\ (pc = "running" /\ sigs = 1) ~> (pc = "exited")
  /\ [][ pc = "exited" => (pc' = "exited" /\ updates' = updates /\ out' = out) ]_vars

\* C19: with ticks going on and no signal, an entry with changed = true is in
\* the end reported by a flush, which writes its line and clears its flag.
C19_ChangeEventuallyReported ==
  \A d \in Devices :
    (d \in DOMAIN updates /\ updates[d].changed)
      ~> (d \in DOMAIN updates /\ ~updates[d].changed
            /\ updates[d].message = reported[d])

=============================================================================
